---- MODULE Spec2Model ----
(***************************************************************************)
(* A model of the training / inference session lifecycle of class LSTM in  *)
(* src/lstm.py: the entry paths of train (explicit checkpoint, in-process  *)
(* resume, fresh), the epoch loop with its batch validation, the end of    *)
(* epoch bookkeeping and checkpointing, and the restore step of predict.   *)
(*                                                                         *)
(* Abstractions.  The learnable parameters of a compute session are one    *)
(* integer: 0 after the initialiser ran, +1 for every optimizer step.      *)
(* Arrays are sequences of row numbers.  The loss of a batch is one unit   *)
(* per row of the partition it is computed on.  Python's None is the empty *)
(* sequence and a value x that may be None is the one-element sequence     *)
(* <<x>>.  A data feeder is a generator: each request for its next element *)
(* either yields a batch or ends the sequence.  The frame of a call is     *)
(* cleared when the call ends; i and epoch_end keep the values they had    *)
(* when train returned, until the caller has taken the result.            *)
(*                                                                         *)
(* Graph construction (__init__, __call__, create_lstm_graph) leaves the   *)
(* instance with no graph, a complete graph, or a tf.Graph() whose network *)
(* was not completed.  Every sess.run of a batch is recorded with what it  *)
(* was fed: keep_prob in percent, global_step as the pair <<i, epoch_end>> *)
(* of the quotient i / epoch_end, and the keep probability the cells were  *)
(* built with.  predict is a generator: a caller may set it aside after an *)
(* element, and its session stays open until it is resumed to its end or   *)
(* closed.  GraphSpec takes the optimizer operation by itself, on batches  *)
(* of rows with values in RowValues and one integer parameter: the loss is *)
(* the squared residuals of the in-sample rows plus the regulariser, and   *)
(* minimize moves the parameter against its gradient.                      *)
(*                                                                         *)
(* train takes its data from a feeder or from a batch given directly; the  *)
(* direct batch is wrapped into a local data_feeder whose body is run when *)
(* the loop first asks for the epoch's batches.  step, writer_step and     *)
(* display_step are the diagnostics counters of one train call: step       *)
(* counts the batches that reached the optimizer, writer_step the          *)
(* summaries written.                                                      *)
(***************************************************************************)
EXTENDS Integers, Sequences, FiniteSets, TLC

\* ------------------------------------------------------------------ bounds
MaxCalls == 2        \* train, predict and __call__ calls made on the instance
MaxEpochEnd == 2     \* largest epoch_end / epoch_prev argument
MaxEpochs == 2       \* epochs run on the instance, over all its calls
MaxBatches == 1      \* longest sequence a data feeder returns
BatchRows == 2       \* rows of a batch
MaxParam == 8        \* largest parameter value an optimizer run starts from

\* ------------------------------------------------------- program constants
n_input_features == 10
n_output_features == 10
self_inner_iteration == 10
DefaultStep == 1         \* default of the argument step of train
DefaultWriterStep == 1   \* default of the argument writer_step of train
self_keep_prob == 50     \* keep_prob of __init__, in percent
KeepProbOff == 100       \* the literal 1.0, in percent

None == <<>>
Some(x) == <<x>>
IsNone(o) == o = <<>>
Val(o) == o[1]

\* id_generator(), line 86-87: six random characters.  The n-th draw is taken
\* to differ from the draws before it.
id_generator(n) == n + 1

\* File names a caller may pass as pre_trained_model: one that is in model_dir
\* before the instance is used, and one that is not.
PreTrainedNames == {"pretrained.ckpt", "missing.ckpt"}

\* ------------------------------------------------------------------- state
VARIABLES
    graph,                    \* self.graph: "none", "built", or "partial" for a
                              \* tf.Graph() whose network was not completed
    sessid,                   \* self.sessid
    graph_trained,            \* self.graph_trained
    trained_epochs,           \* self.trained_epochs
    all_epochs,               \* self.all_epochs
    all_losses_per_epoch,     \* self.all_losses_per_epoch
    all_losses_oos_per_epoch, \* self.all_losses_oos_per_epoch
    all_corr_oos_per_epoch,   \* self.all_corr_oos_per_epoch (rows correlated)
    all_corr_is,              \* self.all_corr_is (one entry per batch)
    all_corr_oos,             \* self.all_corr_oos
    all_actual_is,            \* self.all_actual_is
    all_actual_oos,           \* self.all_actual_oos
    all_predicted_is,         \* self.all_predicted_is
    all_predicted_oos,        \* self.all_predicted_oos
    model_dir,                \* checkpoint files of model_dir: name -> parameters
    pc,                       \* position of the call in flight; "done" when it
                              \* ended and the caller has yet to take its result
    sess,                     \* the compute session of the call in flight
    path,                     \* entry path the train call in flight took
    i,                        \* epoch counter of train
    epoch_end,                \* argument epoch_end
    inner_iteration,          \* argument inner_iteration
    first_epoch,              \* value of i when the call reached the loop
    step,                     \* argument step: batches the call has trained on,
                              \* counted from the value passed in
    writer_step,              \* argument writer_step: the summary writer's step
    display_step,             \* argument display_step
    fed,                      \* batches the feeder yielded in this epoch
    actual_oos,               \* per-epoch accumulator
    predicted_oos,            \* per-epoch accumulator
    loss_epoch,               \* per-epoch loss total
    loss_oos_epoch,           \* per-epoch validation loss total
    sess_runs,                \* the sess.run calls made for the last batch or
                              \* element: what each was fed, and the dropout
                              \* the cells applied
    last_log,                 \* last line the call handed to the logger
    outcome,                  \* how the last call ended; "none" while it runs
    id_draws,                 \* calls of id_generator so far
    epochs_run,               \* epochs started so far, over all calls
    feeder_calls,             \* invocations of data_feeder by the train call
                              \* in flight or just ended
    nCalls,                   \* calls made so far
    suspended,                \* the sessions of the predict generators the
                              \* caller has set aside before their end
    optimizer_run             \* a run of the optimizer operation taken by
                              \* itself: its feeds and the parameters before
                              \* and after it

results == <<all_epochs, all_losses_per_epoch, all_losses_oos_per_epoch,
             all_corr_oos_per_epoch, all_corr_is, all_corr_oos,
             all_actual_is, all_actual_oos, all_predicted_is, all_predicted_oos>>
session_state == <<sessid, graph_trained, trained_epochs, id_draws>>
epoch_locals == <<fed, actual_oos, predicted_oos, loss_epoch, loss_oos_epoch,
                  sess_runs>>
diagnostics == <<step, writer_step, display_step>>
call_locals == <<path, i, inner_iteration, first_epoch, diagnostics>>
counters == <<nCalls, epochs_run, feeder_calls>>
vars == <<graph, session_state, results, model_dir, pc, sess, call_locals,
          epoch_end, epoch_locals, last_log, outcome, counters, optimizer_run,
          suspended>>

\* --------------------------------------------------------------- file names
\* "{sessid}_epoch_{n}.ckpt", "{sessid}_latest.ckpt" and a name given by the
\* caller, which carries no session identifier.
EpochCkpt(sid, n) == [name |-> "_epoch_.ckpt", sessid |-> sid, n |-> n]
LatestCkpt(sid) == [name |-> "_latest.ckpt", sessid |-> sid, n |-> 0]
NamedCkpt(name) == [name |-> name, sessid |-> 0, n |-> 0]

Exists(dir, file) == file \in DOMAIN dir
WriteFile(dir, file, p) ==
    [f \in DOMAIN dir \cup {file} |-> IF f = file THEN p ELSE dir[f]]

\* ----------------------------------------------------------------- batches
GoodBatch ==
    [finite |-> TRUE, stats_finite |-> TRUE, n_features |-> n_input_features,
     n_outputs |-> n_output_features, rows |-> BatchRows, in_sample_size |-> 1]
Batches ==
    { GoodBatch,
      [GoodBatch EXCEPT !.finite = FALSE],
      [GoodBatch EXCEPT !.finite = FALSE, !.n_features = n_input_features + 1],
      [GoodBatch EXCEPT !.stats_finite = FALSE],
      [GoodBatch EXCEPT !.n_features = n_input_features + 1],
      [GoodBatch EXCEPT !.stats_finite = FALSE, !.n_features = n_input_features + 1],
      [GoodBatch EXCEPT !.n_outputs = n_output_features + 1],
      [GoodBatch EXCEPT !.in_sample_size = BatchRows + 1] }

\* The array y (or pred) of a batch, one entry per row, and its two slices.
Rows(b) == [r \in 1..b.rows |-> r]
Min(a, b) == IF a <= b THEN a ELSE b
InSample(arr, cutoff) == SubSeq(arr, 1, Min(cutoff, Len(arr)))
\* A variant of OutOfSample that starts one row late.
OutOfSample_SkipsRow(arr, cutoff) == SubSeq(arr, cutoff + 2, Len(arr))
OutOfSample(arr, cutoff) == SubSeq(arr, cutoff + 1, Len(arr))

\* A variant of Accumulate that keeps the last block only.
Accumulate_LastBlock(acc, block) == Some(block)

\* np.r_[acc, block], with the first block replacing None.
Accumulate(acc, block) ==
    IF IsNone(acc) THEN Some(block) ELSE Some(Val(acc) \o block)

\* loss and loss_oos of the evaluation pass.
LossIs(b) == Len(InSample(Rows(b), b.in_sample_size))
LossOos(b) == Len(OutOfSample(Rows(b), b.in_sample_size))

\* ------------------------------------------------------- compute sessions
Closed == [open |-> FALSE, variables |-> None]
Opened == [open |-> TRUE, variables |-> None]
Initialised == 0
OptimizerStep(p) == p + 1
RECURSIVE GradientSteps(_, _)
GradientSteps(p, n) == IF n <= 0 THEN p ELSE GradientSteps(OptimizerStep(p), n - 1)

\* model_saver.restore: fails when the file is missing or cannot be read.
\* Outcomes of the I/O of model_saver.restore.  On a graph whose network was
\* not completed model_saver is None (line 127) and the call itself fails.
RestoreIO(g) == IF g = "built" THEN BOOLEAN ELSE {FALSE}
RestoreFails(dir, file, io_ok) == ~Exists(dir, file) \/ ~io_ok
Restored(dir, file) == [open |-> TRUE, variables |-> Some(dir[file])]

\* ------------------------------------------------------------ graph runs
\* The value fed for the keep_prob placeholder: self.keep_prob with the
\* optimizer (line 657), 1.0 with the evaluation pass (line 681) and with the
\* forward pass of predict (line 927).
FeedKeepProb(op) == IF op = "optimizer" THEN self_keep_prob ELSE KeepProbOff

\* Lines 326-353: every cell is wrapped with output_keep_prob=self.keep_prob,
\* the number given at construction; the placeholder of line 311 is an input
\* of no operation.
output_keep_prob(placeholder) == self_keep_prob

\* The value fed for global_step, line 659: i / epoch_end, kept as the pair
\* of its numerator and denominator.
GlobalStep(n, end) == <<n, end>>

\* One sess.run: the operation asked for, its feeds, and the dropout applied.
SessRun(op, n, end) ==
    [op |-> op,
     keep_prob |-> FeedKeepProb(op),
     dropout |-> output_keep_prob(FeedKeepProb(op)),
     global_step |-> IF op = "optimizer" THEN Some(GlobalStep(n, end)) ELSE None]

\* Lines 647-684: inner optimizer runs, then the evaluation pass.
BatchRuns(inner, n, end) ==
    [j \in 1..inner |-> SessRun("optimizer", n, end)] \o <<SessRun("evaluation", n, end)>>

\* --------------------------------------------------- loss and optimizer
\* For the operations of the graph taken by themselves, a batch is a sequence
\* of rows, a row the number that its X and y amount to, the parameters one
\* number p, and the residual y - pred of a row is the row less p.
RowValues == {0, 1}
GraphBatches == [1..BatchRows -> RowValues]
ParamValues == 0..MaxParam

RECURSIVE SumSeq(_)
SumSeq(seq) == IF seq = <<>> THEN 0 ELSE Head(seq) + SumSeq(Tail(seq))

\* pred for a batch: the output of the network for each of its rows.
Predictions(rows, p) == [r \in 1..Len(rows) |-> p]

\* tf.subtract(y, pred) over a block of rows, and tf.nn.l2_loss of it.
Residuals(block, p) == [r \in 1..Len(block) |-> block[r] - p]
l2_loss(t) == SumSeq([r \in 1..Len(t) |-> t[r] * t[r]]) \div 2

\* A variant of LossRows in which the loss is taken over the whole batch.
LossRows_AllRows(rows, cutoff) == rows

\* Lines 400-401: y_is and pred_is, the rows the loss is computed on.
LossRows(rows, cutoff) == InSample(rows, cutoff)

\* Lines 472-479: the regularisation term, a function of the variables alone.
Regularization(p) == p * p

\* Lines 472-479 and 482: loss and loss_oos.
loss(rows, cutoff, p) ==
    l2_loss(Residuals(LossRows(rows, cutoff), p)) + Regularization(p)
loss_oos(rows, cutoff, p) == l2_loss(Residuals(OutOfSample(rows, cutoff), p))

\* The derivative of loss in p: one term per row of the loss, and the
\* derivative of the regularisation.
Gradient(rows, cutoff, p) ==
    SumSeq([r \in 1..Len(LossRows(rows, cutoff)) |-> p - LossRows(rows, cutoff)[r]])
        + 2 * p

\* Line 484: minimize(loss) moves the parameters against the gradient of
\* loss; loss_oos is not among its inputs.
Minimize(p, rows, cutoff) == p - Gradient(rows, cutoff, p)

\* ------------------------------------------------------------ train: entry
\* A variant of EntryPath with no in-process resume: a trained instance with
\* no checkpoint name starts over.
EntryPath_NoResume(restore_model, pre_trained_model, trained) ==
    IF restore_model /\ ~IsNone(pre_trained_model) THEN "pretrained" ELSE "fresh"

\* Which branch of lines 582-617 a call takes.
EntryPath(restore_model, pre_trained_model, trained) ==
    IF restore_model
    THEN IF ~IsNone(pre_trained_model) THEN "pretrained"
         ELSE IF trained THEN "resumed" ELSE "fresh"
    ELSE "fresh"

\* A variant of StartEpoch in which the fresh branches keep the caller's
\* epoch_prev instead of resetting it to 0.
StartEpoch_FromPrev(p, epoch_prev, trained_eps) ==
    IF p = "resumed" THEN trained_eps + 1 ELSE epoch_prev + 1

\* The first value of the epoch counter i on each branch.
StartEpoch(p, epoch_prev, trained_eps) ==
    IF p = "pretrained" THEN epoch_prev + 1
    ELSE IF p = "resumed" THEN trained_eps + 1
    ELSE 0 + 1

\* The checkpoint file a restoring branch reads.
RestoreFile(p, pre_trained_model, sid) ==
    IF p = "pretrained" THEN NamedCkpt(Val(pre_trained_model))
    ELSE LatestCkpt(Val(sid))

\* A variant of SessidAfterRestore that draws an identifier on every restore.
SessidAfterRestore_Fresh(sid, n) == Some(id_generator(n))
\* A variant of SessidAfterFailedRestore that assigns the identifier before the
\* restore is attempted.
SessidAfterFailedRestore_Assigned(sid, n) ==
    IF IsNone(sid) THEN Some(id_generator(n)) ELSE sid
\* A variant of ResetOnRestore in which the restoring branches start over.
ResetOnRestore_Always == TRUE

\* self.sessid once a named checkpoint was restored, lines 589-590 and 899-900.
SessidAfterRestore(sid, n) == IF IsNone(sid) THEN Some(id_generator(n)) ELSE sid
\* self.sessid when restoring a checkpoint raised: the assignment is not reached.
SessidAfterFailedRestore(sid, n) == sid
\* Whether a restoring branch of train calls clear_prev_results and runs the
\* initialiser: neither does.
ResetOnRestore == FALSE

DrawsFor(sid_before, sid_after, n) == IF sid_after = sid_before THEN n ELSE n + 1

NoCallLocals ==
    /\ path' = "none"
    /\ inner_iteration' = None
    /\ first_epoch' = 0
    /\ step' = 0
    /\ writer_step' = 0
    /\ display_step' = 0
NoEpochLocals ==
    /\ fed' = 0
    /\ actual_oos' = None
    /\ predicted_oos' = None
    /\ loss_epoch' = 0
    /\ loss_oos_epoch' = 0
    /\ sess_runs' = <<>>

\* A variant of Raise in which the session outlives the exception.
Raise_KeepsSession(kind) ==
    /\ pc' = "done"
    /\ sess' = sess
    /\ outcome' = kind
    /\ NoCallLocals
    /\ i' = 0
    /\ NoEpochLocals

\* An exception leaves the with-block: the session is released, the frame
\* of the call is gone and the exception reaches the caller.
Raise(kind) ==
    /\ pc' = "done"
    /\ sess' = Closed
    /\ outcome' = kind
    /\ NoCallLocals
    /\ i' = 0
    /\ NoEpochLocals

ClearPrevResults ==
    /\ all_actual_is' = None
    /\ all_actual_oos' = None
    /\ all_predicted_is' = None
    /\ all_predicted_oos' = None
    /\ all_epochs' = <<>>
    /\ all_losses_per_epoch' = <<>>
    /\ all_losses_oos_per_epoch' = <<>>
    /\ all_corr_oos_per_epoch' = <<>>
    /\ all_corr_is' = <<>>
    /\ all_corr_oos' = <<>>

\* A variant of FeederCallsAtEpochStart in which the feeder is invoked for the
\* first epoch of a call only.
FeederCallsAtEpochStart_FirstOnly(n) == IF n = 0 THEN 1 ELSE n

\* Line 627: the for statement calls data_feeder() once, each time the body
\* of the while loop runs.
FeederCallsAtEpochStart(n) == n + 1

\* The while test of line 619.
LoopContinues(n, end) == n <= end

\* A variant of TrainedEpochsOnReturn that forgets the counter ran one past
\* the last epoch.
TrainedEpochsOnReturn_Counter(n) == n

\* self.trained_epochs as set on return, line 838.
TrainedEpochsOnReturn(n) == n - 1

\* Arguments batch_X, batch_y and in_sample_size of train: none, or a batch
\* passed directly.
BatchXArgs == {None, Some(GoodBatch)}

\* Lines 570-573 and 627: with a batch passed directly data_feeder is the
\* wrapper of line 572, whose body reads total_sample_size, a local of train
\* that is first assigned at line 628, inside the loop the wrapper feeds: the
\* first call of the wrapper raises NameError.
FeederRaises(batch_X) == ~IsNone(batch_X)

\* Line 619 with the epoch counter at n and the session in state s.  When the
\* test holds, lines 620-627: the per-epoch holders are reset and
\* data_feeder() is called.  When it fails, lines 837-860: the call returns
\* its result bundle.
LoopHead(n, end, s, batch_X) ==
    /\ IF LoopContinues(n, end) /\ FeederRaises(batch_X)
       THEN /\ Raise("NameError")
            /\ epochs_run' = epochs_run + 1
            /\ feeder_calls' = FeederCallsAtEpochStart(feeder_calls)
            /\ last_log' = "Epoch Starts"
            /\ UNCHANGED <<graph_trained, trained_epochs>>
       ELSE IF LoopContinues(n, end)
       THEN /\ i' = n
            /\ pc' = "t_batch"
            /\ sess' = s
            /\ epochs_run' = epochs_run + 1
            /\ feeder_calls' = FeederCallsAtEpochStart(feeder_calls)
            /\ NoEpochLocals
            /\ last_log' = "Epoch Starts"
            /\ outcome' = "none"
            /\ UNCHANGED <<graph_trained, trained_epochs>>
       ELSE /\ i' = n
            /\ graph_trained' = TRUE
            /\ trained_epochs' = TrainedEpochsOnReturn(n)
            /\ pc' = "done"
            /\ sess' = Closed
            /\ outcome' = "results"
            /\ NoEpochLocals
            /\ UNCHANGED <<epochs_run, feeder_calls, last_log>>

\* Values of the argument display_step of train.
DisplayStepArgs == {1, 2}

\* Epochs a call that starts at first and ends at end will run.
Planned(first, end) == IF end >= first THEN end - first + 1 ELSE 0

\* The rest of the entry once the branch has set the session up.
EnterLoop(p, first, end, inner, s, batch_X) ==
    /\ epochs_run + Planned(first, end) <= MaxEpochs
    /\ LoopHead(first, end, s, batch_X)
    /\ IF LoopContinues(first, end) /\ ~FeederRaises(batch_X)
       THEN /\ path' = p
            /\ inner_iteration' = inner
            /\ first_epoch' = first
            /\ step' = DefaultStep
            /\ writer_step' = DefaultWriterStep
            /\ display_step' \in DisplayStepArgs
       ELSE NoCallLocals

FailRestore(kind, sid_after, log) ==
    /\ Raise(kind)
    /\ sessid' = sid_after
    /\ id_draws' = DrawsFor(sessid, sid_after, id_draws)
    /\ last_log' = log
    /\ UNCHANGED <<graph_trained, trained_epochs, results, epochs_run, feeder_calls>>

\* What a restoring branch leaves in the session and in the result holders.
AfterRestore(file) ==
    IF ResetOnRestore THEN [open |-> TRUE, variables |-> Some(Initialised)]
    ELSE Restored(model_dir, file)

\* Lines 583-593: the branch of an explicit checkpoint name.
TrainPretrained(pre_trained_model, epoch_prev, end, inner, batch_X) ==
    \E io_ok \in RestoreIO(graph) :
    IF RestoreFails(model_dir, RestoreFile("pretrained", pre_trained_model, sessid), io_ok)
    THEN FailRestore("Exception", SessidAfterFailedRestore(sessid, id_draws),
                     "Session restore failed: ")
    ELSE /\ sessid' = SessidAfterRestore(sessid, id_draws)
         /\ id_draws' = DrawsFor(sessid, sessid', id_draws)
         /\ EnterLoop("pretrained", StartEpoch("pretrained", epoch_prev, trained_epochs),
                      end, inner,
                      AfterRestore(RestoreFile("pretrained", pre_trained_model, sessid)),
                      batch_X)
         /\ IF ResetOnRestore THEN ClearPrevResults ELSE UNCHANGED results

\* Lines 594-603: the branch of an instance trained in this process.
TrainResumed(epoch_prev, end, inner, batch_X) ==
    IF IsNone(sessid)
    THEN /\ Raise("AssertionError")
         /\ UNCHANGED <<session_state, results, last_log, epochs_run, feeder_calls>>
    ELSE \E io_ok \in RestoreIO(graph) :
         IF RestoreFails(model_dir, RestoreFile("resumed", None, sessid), io_ok)
         THEN FailRestore("Exception", sessid, "Active session restore failed: ")
         ELSE /\ EnterLoop("resumed", StartEpoch("resumed", epoch_prev, trained_epochs),
                           end, inner, AfterRestore(RestoreFile("resumed", None, sessid)),
                           batch_X)
              /\ IF ResetOnRestore THEN ClearPrevResults ELSE UNCHANGED results
              /\ UNCHANGED <<sessid, id_draws>>

\* Lines 604-617: the two fresh branches, which run the same statements.
TrainFresh(epoch_prev, end, inner, batch_X) ==
    /\ sessid' = Some(id_generator(id_draws))
    /\ id_draws' = id_draws + 1
    /\ EnterLoop("fresh", StartEpoch("fresh", epoch_prev, trained_epochs), end, inner,
                 [open |-> TRUE, variables |-> Some(Initialised)], batch_X)
    /\ ClearPrevResults

\* Lines 604-607 and 612-614 on a graph whose network was not completed:
\* graph_keys is None (line 121), so self.graph_keys['init'] fails after the
\* result holders were cleared.
TrainFreshUnbuilt ==
    /\ ClearPrevResults
    /\ Raise("TypeError")
    /\ UNCHANGED <<session_state, last_log, epochs_run, feeder_calls>>

\* train, lines 562-627: from the call to the first request made to the data
\* feeder, or to the return when no epoch is to be run.
Train(batch_X, restore_model, pre_trained_model, epoch_prev, end, inner) ==
    /\ pc = "idle"
    /\ nCalls < MaxCalls
    /\ nCalls' = nCalls + 1
    /\ epoch_end' = end
    /\ IF graph = "none"
       THEN /\ pc' = "done"
            /\ outcome' = "None"
            /\ last_log' = "No graph available for training."
            /\ UNCHANGED <<session_state, results, sess, call_locals, epoch_locals,
                           epochs_run, feeder_calls>>
       ELSE IF EntryPath(restore_model, pre_trained_model, graph_trained) = "pretrained"
       THEN TrainPretrained(pre_trained_model, epoch_prev, end, inner, batch_X)
       ELSE IF EntryPath(restore_model, pre_trained_model, graph_trained) = "resumed"
       THEN TrainResumed(epoch_prev, end, inner, batch_X)
       ELSE IF graph = "partial"
       THEN TrainFreshUnbuilt
       ELSE TrainFresh(epoch_prev, end, inner, batch_X)
    /\ UNCHANGED <<graph, optimizer_run, suspended, model_dir>>

PreTrainedArgs == {None} \cup {Some(n) : n \in PreTrainedNames}
InnerIterationArgs == {None}

EpochArgs == 0..MaxEpochEnd

\* A call of train by the user of the instance, with any arguments.
TrainCall ==
    /\ pc = "idle"
    /\ nCalls < MaxCalls
    /\ \E batch_X \in BatchXArgs, restore_model \in BOOLEAN,
          pre_trained_model \in PreTrainedArgs,
          epoch_prev \in EpochArgs, end \in EpochArgs, inner \in InnerIterationArgs :
          Train(batch_X, restore_model, pre_trained_model, epoch_prev, end, inner)

\* ------------------------------------------------------- train: epoch loop
\* A variant of BatchVerdict without the two shape assertions.
BatchVerdict_NoShapeCheck(b, inner) ==
    IF ~b.finite THEN "skip"
    ELSE IF ~b.stats_finite THEN "AssertionError"
    ELSE IF ~(b.in_sample_size <= b.rows)
         THEN "AssertionError: in_sample_size needs to be smaller than total"
    ELSE IF ~(inner >= 1) THEN "AssertionError: inner_iteration has to be >= 1"
    ELSE "run"

\* Lines 629-643: what happens to a batch before any session run.
BatchVerdict(b, inner) ==
    IF ~b.finite THEN "skip"
    ELSE IF ~b.stats_finite THEN "AssertionError"
    ELSE IF ~(b.in_sample_size <= b.rows)
         THEN "AssertionError: in_sample_size needs to be smaller than total"
    ELSE IF b.n_features # n_input_features
         THEN "AssertionError: batch_X should have shape"
    ELSE IF b.n_outputs # n_output_features
         THEN "AssertionError: batch_y should have shape"
    ELSE IF ~(inner >= 1) THEN "AssertionError: inner_iteration has to be >= 1"
    ELSE "run"

\* Lines 641-642: the argument takes priority over the instance's setting.
EffectiveInner(inner) == IF IsNone(inner) THEN self_inner_iteration ELSE Val(inner)

\* Lines 647-737: the gradient steps, the evaluation pass and the recording
\* of its results.
RunBatch(b, inner) ==
    LET y_val == Rows(b)
        pred_val == Rows(b)
        y_oos_val == OutOfSample(y_val, b.in_sample_size)
        pred_oos_val == OutOfSample(pred_val, b.in_sample_size)
    IN  /\ sess' = [sess EXCEPT !.variables =
                        Some(GradientSteps(Val(sess.variables), inner))]
        /\ actual_oos' = Accumulate(actual_oos, y_oos_val)
        /\ predicted_oos' = Accumulate(predicted_oos, pred_oos_val)
        /\ all_actual_is' = Accumulate(all_actual_is, InSample(y_val, b.in_sample_size))
        /\ all_actual_oos' = Accumulate(all_actual_oos, y_oos_val)
        /\ all_predicted_is' =
               Accumulate(all_predicted_is, InSample(pred_val, b.in_sample_size))
        /\ all_predicted_oos' = Accumulate(all_predicted_oos, pred_oos_val)
        /\ all_corr_is' = Append(all_corr_is, Len(InSample(y_val, b.in_sample_size)))
        /\ all_corr_oos' = Append(all_corr_oos, Len(y_oos_val))
        /\ loss_epoch' = loss_epoch + LossIs(b)
        /\ loss_oos_epoch' = loss_oos_epoch + LossOos(b)
        /\ sess_runs' = BatchRuns(inner, i, epoch_end)

\* A variant of Emits in which every batch trained on is reported.
Emits_EveryBatch(n, every) == TRUE

\* Line 791: the test that guards the diagnostics.
Emits(n, every) == n % every = 0

\* Lines 790-802, at the end of a batch trained on: when the test holds the
\* summary is written at writer_step, writer_step advances and the line
\* "Iter:{step} ..." is logged; step advances in either case.
Diagnostics ==
    /\ IF Emits(step, display_step)
       THEN /\ writer_step' = writer_step + 1
            /\ last_log' = "Iter"
       ELSE UNCHANGED <<writer_step, last_log>>
    /\ step' = step + 1
    /\ UNCHANGED display_step

\* One pass of the for loop of line 627, over the batch b the feeder yields.
TrainOnBatch(b) ==
    /\ pc = "t_batch"
    /\ fed < MaxBatches
    /\ IF BatchVerdict(b, EffectiveInner(inner_iteration)) = "skip"
       THEN /\ fed' = fed + 1
            /\ UNCHANGED <<pc, sess, outcome, results, call_locals, actual_oos,
                           predicted_oos, loss_epoch, loss_oos_epoch, sess_runs,
                           last_log>>
       ELSE IF BatchVerdict(b, EffectiveInner(inner_iteration)) = "run"
       THEN /\ fed' = fed + 1
            /\ RunBatch(b, EffectiveInner(inner_iteration))
            /\ inner_iteration' = Some(EffectiveInner(inner_iteration))
            /\ Diagnostics
            /\ UNCHANGED <<pc, outcome, path, i, first_epoch, all_epochs,
                           all_losses_per_epoch, all_losses_oos_per_epoch,
                           all_corr_oos_per_epoch>>
       ELSE /\ Raise(BatchVerdict(b, EffectiveInner(inner_iteration)))
            /\ UNCHANGED <<results, last_log>>
    /\ UNCHANGED <<graph, optimizer_run, suspended, session_state, model_dir, epoch_end, counters>>

\* The feeder yields its next batch, whatever it holds.
TrainBatch ==
    /\ pc = "t_batch"
    /\ \E b \in Batches : TrainOnBatch(b)

\* Lines 804-828: the feeder's sequence has ended; the epoch's totals are
\* appended to the history.  actual_oos.shape fails on None.
TrainEpochEnd ==
    /\ pc = "t_batch"
    /\ IF IsNone(actual_oos)
       THEN /\ Raise("AttributeError")
            /\ UNCHANGED <<results, last_log>>
       ELSE /\ all_epochs' = Append(all_epochs, i)
            /\ all_losses_per_epoch' = Append(all_losses_per_epoch, loss_epoch)
            /\ all_losses_oos_per_epoch' = Append(all_losses_oos_per_epoch, loss_oos_epoch)
            /\ all_corr_oos_per_epoch' =
                   Append(all_corr_oos_per_epoch, Len(Val(actual_oos)))
            /\ pc' = "t_save"
            /\ last_log' = "Epoch Ends"
            /\ UNCHANGED <<sess, outcome, all_corr_is, all_corr_oos, all_actual_is,
                           all_actual_oos, all_predicted_is, all_predicted_oos,
                           call_locals, epoch_locals>>
    /\ UNCHANGED <<graph, optimizer_run, suspended, session_state, model_dir, epoch_end, counters>>

\* A variant of SaveCheckpoints that writes the epoch-tagged file only.
SaveCheckpoints_EpochOnly(dir, sid, n, p, result) ==
    IF result = "first_failed" THEN dir ELSE WriteFile(dir, EpochCkpt(sid, n), p)
\* A variant of SaveRaises in which a failed save leaves the try block.
SaveRaises_Propagates(result) == result # "saved"

\* Lines 829-834: the two saves share one try block, so the second is not
\* attempted when the first fails.
SaveResults == {"saved", "first_failed", "second_failed"}
SaveCheckpoints(dir, sid, n, p, result) ==
    IF result = "saved"
    THEN WriteFile(WriteFile(dir, EpochCkpt(sid, n), p), LatestCkpt(sid), p)
    ELSE IF result = "second_failed" THEN WriteFile(dir, EpochCkpt(sid, n), p)
    ELSE dir
SaveLog(result) ==
    IF result = "saved" THEN "Model checkpoint successfully saved."
    ELSE "Model checkpoint save unsuccessful"
\* Whether an exception of a save leaves the try block of line 829: the
\* handler of line 833 takes every Exception.
SaveRaises(result) == FALSE

SaveEpoch(result) ==
    /\ pc = "t_save"
    /\ model_dir' = SaveCheckpoints(model_dir, Val(sessid), i, Val(sess.variables),
                                    result)
    /\ IF SaveRaises(result)
       THEN Raise("Exception") /\ UNCHANGED last_log
       ELSE /\ pc' = "t_advance"
            /\ last_log' = SaveLog(result)
            /\ UNCHANGED <<sess, outcome, call_locals, epoch_locals>>
    /\ UNCHANGED <<graph, optimizer_run, suspended, session_state, results, epoch_end, counters>>

TrainSave == \E result \in SaveResults : SaveEpoch(result)

\* Line 835, and the loop test that follows it.
TrainAdvance ==
    /\ pc = "t_advance"
    /\ LoopHead(i + 1, epoch_end, sess, None)   \* a feeder that raised on its first call never gets here
    /\ IF LoopContinues(i + 1, epoch_end)
       THEN UNCHANGED <<path, inner_iteration, first_epoch, diagnostics>>
       ELSE NoCallLocals
    /\ UNCHANGED <<graph, optimizer_run, suspended, sessid, id_draws, results, model_dir, nCalls, epoch_end>>

\* ----------------------------------------------------------------- predict
\* A variant of PredictRestoreFile that prefers the instance's own latest
\* checkpoint to the one named.
PredictRestoreFile_PreferLatest(pre_trained_model, sid) ==
    IF ~IsNone(sid) THEN LatestCkpt(Val(sid)) ELSE NamedCkpt(Val(pre_trained_model))

\* A variant of TrainedAfterPredict in which restored parameters count as
\* trained ones.
TrainedAfterPredict_Marked(trained) == TRUE

\* Lines 893-909: predict assigns sessid at most; graph_trained is as it was.
TrainedAfterPredict(trained) == trained

\* Lines 893-908: the checkpoint predict restores.
PredictRestoreFile(pre_trained_model, sid) ==
    IF ~IsNone(pre_trained_model) THEN NamedCkpt(Val(pre_trained_model))
    ELSE LatestCkpt(Val(sid))

\* predict is a generator: lines 870-909 run when its first element is asked
\* for, up to the first request made to the data feeder.
Predict(pre_trained_model) ==
    /\ pc = "idle"
    /\ nCalls < MaxCalls
    /\ nCalls' = nCalls + 1
    /\ IF graph = "none"
       THEN /\ pc' = "done"
            /\ outcome' = "None"
            /\ last_log' = "No graph available for prediction."
            /\ UNCHANGED <<session_state, sess, call_locals, epoch_locals>>
       ELSE IF ~IsNone(pre_trained_model)
       THEN \E io_ok \in RestoreIO(graph) :
            IF RestoreFails(model_dir, PredictRestoreFile(pre_trained_model, sessid), io_ok)
            THEN FailRestore("Exception", SessidAfterFailedRestore(sessid, id_draws),
                             "Session restore failed: ")
            ELSE /\ sess' = Restored(model_dir, PredictRestoreFile(pre_trained_model, sessid))
                 /\ sessid' = SessidAfterRestore(sessid, id_draws)
                 /\ id_draws' = DrawsFor(sessid, sessid', id_draws)
                 /\ pc' = "p_iter"
                 /\ last_log' = "Forward prediction period"
                 /\ outcome' = "none"
                 /\ graph_trained' = TrainedAfterPredict(graph_trained)
                 /\ UNCHANGED <<trained_epochs, call_locals, epoch_locals>>
       ELSE IF IsNone(sessid)
       THEN /\ Raise("AssertionError: No valid session id")
            /\ UNCHANGED <<session_state, last_log>>
       ELSE \E io_ok \in RestoreIO(graph) :
            IF RestoreFails(model_dir, PredictRestoreFile(pre_trained_model, sessid), io_ok)
            THEN FailRestore("NotFoundError", sessid, last_log)
            ELSE /\ sess' = Restored(model_dir, PredictRestoreFile(pre_trained_model, sessid))
                 /\ pc' = "p_iter"
                 /\ last_log' = "Forward prediction period"
                 /\ outcome' = "none"
                 /\ graph_trained' = TrainedAfterPredict(graph_trained)
                 /\ UNCHANGED <<sessid, id_draws, trained_epochs, call_locals,
                                epoch_locals>>
    /\ UNCHANGED <<graph, optimizer_run, suspended, results, model_dir, epoch_end, epochs_run, feeder_calls>>

\* A call of predict by the user of the instance, with any arguments.
PredictCall == \E pre_trained_model \in PreTrainedArgs : Predict(pre_trained_model)

\* An element of the feeder of predict: a training-style tuple or a raw array.
PredictData == {"tuple", "array"}

\* Lines 911-935 for one element: the forward pass, then the de-normalisation,
\* which multiplies None by None when the element is a raw array.
PredictVerdict(data) == IF data = "tuple" THEN "yield" ELSE "TypeError"

\* One pass of the for loop of line 911, over the element the feeder yields.
PredictOn(data) ==
    /\ pc = "p_iter"
    /\ IF PredictVerdict(data) = "yield"
       THEN /\ outcome' = "yielded"
            /\ sess_runs' = <<SessRun("pred", 0, 0)>>
            /\ UNCHANGED <<pc, sess, call_locals, fed, actual_oos, predicted_oos,
                           loss_epoch, loss_oos_epoch>>
       ELSE Raise(PredictVerdict(data))
    /\ UNCHANGED <<graph, optimizer_run, suspended, session_state, results, model_dir, epoch_end, last_log,
                   counters>>

\* The feeder yields its next element, of either form.
PredictBatch == \E data \in PredictData : PredictOn(data)

\* The feeder's sequence ends, or the caller closes the generator: the
\* with-block is left and the session released.
PredictEnd ==
    /\ pc = "p_iter"
    /\ Raise("StopIteration")
    /\ UNCHANGED <<graph, optimizer_run, suspended, session_state, results, model_dir, epoch_end, last_log,
                   counters>>

\* A sequence without its k-th element.
Without(seq, k) == SubSeq(seq, 1, k - 1) \o SubSeq(seq, k + 1, Len(seq))

\* The caller stops asking for elements and keeps the generator: its frame
\* stays suspended at the yield of line 935, inside the with-block of line
\* 891, so its session stays open.
PredictSuspend ==
    /\ pc = "p_iter"
    /\ outcome = "yielded"
    /\ suspended' = Append(suspended, sess)
    /\ sess' = Closed
    /\ pc' = "idle"
    /\ outcome' = "none"
    /\ last_log' = ""
    /\ NoEpochLocals
    /\ UNCHANGED <<graph, optimizer_run, session_state, results, model_dir,
                   call_locals, epoch_end, counters>>

\* The caller asks a generator it had set aside for its next element.
PredictResume ==
    /\ pc = "idle"
    /\ \E k \in 1..Len(suspended) :
          /\ sess' = suspended[k]
          /\ suspended' = Without(suspended, k)
    /\ pc' = "p_iter"
    /\ outcome' = "yielded"
    /\ UNCHANGED <<graph, optimizer_run, session_state, results, model_dir,
                   call_locals, epoch_end, epoch_locals, last_log, counters>>

\* A generator that was set aside is closed or collected: GeneratorExit is
\* raised at its yield and the with-block releases its session.
PredictClose ==
    /\ pc = "idle"
    /\ \E k \in 1..Len(suspended) : suspended' = Without(suspended, k)
    /\ UNCHANGED <<graph, optimizer_run, session_state, results, model_dir, pc,
                   sess, call_locals, epoch_end, epoch_locals, last_log, outcome,
                   counters>>

\* Compute sessions of the instance's graph that are open.
OpenSessions == Len(suspended) + (IF sess.open THEN 1 ELSE 0)

\* The caller takes what the call returned or raised and goes on.
Return ==
    /\ pc = "done"
    /\ pc' = "idle"
    /\ outcome' = "none"
    /\ last_log' = ""
    /\ i' = 0
    /\ epoch_end' = 0
    /\ feeder_calls' = 0
    /\ UNCHANGED <<graph, optimizer_run, suspended, session_state, results, model_dir, sess, path,
                   inner_iteration, first_epoch, diagnostics, epoch_locals, nCalls,
                   epochs_run>>

\* ------------------------------------------------------------------- graph
\* What a build of the network meets: a complete configuration, no input
\* feature count (neither stored nor passed), or a cell_type that is none of
\* LSTM, GRU, RNN.
GraphConfigs == {"ok", "no_input_features", "bad_cell_type"}

\* create_lstm_graph, lines 283-358: the assertion of line 284 fails before
\* self.graph is touched; the assertion of line 358 fails after self.graph
\* was set to a new, empty tf.Graph() (lines 288-293).
GraphAfterCreate(g, config) ==
    IF config = "no_input_features" THEN g
    ELSE IF config = "bad_cell_type" THEN "partial"
    ELSE "built"

\* __init__, lines 161-170: the exception of create_lstm_graph is caught and
\* printed, and the constructor returns the instance.
ConstructionOutcome(create_graph, config) == "instance"

\* Lines 167-168: what __init__ prints when it caught the exception.
ConstructionLog(create_graph, config) ==
    IF create_graph /\ config # "ok"
    THEN "Exception occurred during graph creation."
    ELSE ""

\* self.graph when __init__ returns.
GraphAfterInit(create_graph, config) ==
    IF create_graph THEN GraphAfterCreate("none", config) ELSE "none"

\* The configurations a direct call of create_lstm_graph can meet, given
\* what the instance's graph tells of cell_type and n_input_features.
ConfigsFor(g) ==
    IF g = "built" THEN {"ok"}
    ELSE IF g = "partial" THEN {"bad_cell_type"}
    ELSE GraphConfigs

\* create_lstm_graph called on an instance, lines 274-528: the graph there
\* was is replaced; no session field is touched.  An assertion that fails
\* reaches the caller.
CreateGraph(config) ==
    /\ pc = "idle"
    /\ graph' = GraphAfterCreate(graph, config)
    /\ pc' = "done"
    /\ outcome' = IF config = "ok" THEN "None" ELSE "AssertionError"
    /\ UNCHANGED <<session_state, results, model_dir, sess, call_locals,
                   epoch_end, epoch_locals, last_log, counters,
                   optimizer_run, suspended>>

CreateGraphCall == \E config \in ConfigsFor(graph) : CreateGraph(config)

\* __call__, lines 172-194: the graph is deleted and __init__ runs again on
\* the instance, with any arguments.
CallWrapper(create_graph, config) ==
    /\ pc = "idle"
    /\ nCalls < MaxCalls
    /\ nCalls' = nCalls + 1
    /\ graph' = GraphAfterInit(create_graph, config)
    /\ sessid' = None
    /\ graph_trained' = FALSE
    /\ trained_epochs' = 0
    /\ ClearPrevResults
    /\ pc' = "done"
    /\ outcome' = "None"
    /\ last_log' = ConstructionLog(create_graph, config)
    /\ UNCHANGED <<id_draws, model_dir, sess, call_locals, epoch_end, epoch_locals,
                   epochs_run, feeder_calls, optimizer_run, suspended>>

CallWrapperCall ==
    /\ pc = "idle"
    /\ \E create_graph \in BOOLEAN, config \in GraphConfigs :
          CallWrapper(create_graph, config)

\* ----------------------------------------------------------- specification
\* __init__, lines 101-170, with create_graph given or not and with any
\* configuration, where it returns an instance; model_dir holds one
\* checkpoint written by an earlier process.
Init ==
    /\ \E a \in {c \in BOOLEAN \X GraphConfigs :
                    ConstructionOutcome(c[1], c[2]) = "instance"} :
          /\ graph = GraphAfterInit(a[1], a[2])
          /\ last_log = ConstructionLog(a[1], a[2])
    /\ sessid = None
    /\ graph_trained = FALSE
    /\ trained_epochs = 0
    /\ all_actual_is = None
    /\ all_actual_oos = None
    /\ all_predicted_is = None
    /\ all_predicted_oos = None
    /\ all_epochs = <<>>
    /\ all_losses_per_epoch = <<>>
    /\ all_losses_oos_per_epoch = <<>>
    /\ all_corr_oos_per_epoch = <<>>
    /\ all_corr_is = <<>>
    /\ all_corr_oos = <<>>
    /\ model_dir = [f \in {NamedCkpt("pretrained.ckpt")} |-> 100]
    /\ pc = "idle"
    /\ sess = Closed
    /\ path = "none"
    /\ i = 0
    /\ epoch_end = 0
    /\ inner_iteration = None
    /\ first_epoch = 0
    /\ step = 0
    /\ writer_step = 0
    /\ display_step = 0
    /\ fed = 0
    /\ actual_oos = None
    /\ predicted_oos = None
    /\ loss_epoch = 0
    /\ loss_oos_epoch = 0
    /\ sess_runs = <<>>
    /\ outcome = "none"
    /\ id_draws = 0
    /\ nCalls = 0
    /\ epochs_run = 0
    /\ feeder_calls = 0
    /\ optimizer_run = None
    /\ suspended = <<>>

Next ==
    \/ CreateGraphCall
    \/ CallWrapperCall
    \/ TrainCall
    \/ TrainBatch
    \/ TrainEpochEnd
    \/ TrainSave
    \/ TrainAdvance
    \/ PredictCall
    \/ PredictBatch
    \/ PredictEnd
    \/ PredictSuspend
    \/ PredictResume
    \/ PredictClose
    \/ Return

Spec == Init /\ [][Next]_vars

\* The optimizer operation of a built graph, run on any batch with any
\* in_sample_cutoff from any parameters, with the four slices of lines
\* 400-405 that the graph computes from the batch.
OptimizerRun(rows, cutoff, p) ==
    /\ graph = "built"
    /\ optimizer_run' = Some([rows |-> rows, cutoff |-> cutoff, before |-> p,
                              y_is |-> InSample(rows, cutoff),
                              pred_is |-> InSample(Predictions(rows, p), cutoff),
                              y_oos |-> OutOfSample(rows, cutoff),
                              pred_oos |-> OutOfSample(Predictions(rows, p), cutoff),
                              after |-> Minimize(p, rows, cutoff),
                              loss |-> loss(rows, cutoff, p),
                              loss_oos |-> loss_oos(rows, cutoff, p)])
    /\ UNCHANGED <<graph, session_state, results, model_dir, pc, sess, call_locals,
                   epoch_end, epoch_locals, last_log, outcome, counters, suspended>>

OptimizerRuns ==
    \E rows \in GraphBatches, cutoff \in 0..BatchRows, p \in ParamValues :
        OptimizerRun(rows, cutoff, p)

GraphSpec == Init /\ [][OptimizerRuns]_vars

\* A train call in flight keeps executing: the interpreter runs the loop on.
FairSpec == Spec /\ WF_vars(TrainBatch \/ TrainEpochEnd \/ TrainSave \/ TrainAdvance)

\* ------------------------------------------------------------------ claims
\* A restore failed: the call is over, with the error in the caller's hands.
RestoreError == pc' = "done" /\ outcome' \in {"Exception", "NotFoundError"}
\* The call was given its batch directly and ended at the first call of the
\* wrapper of line 572, once its entry branch had run.
FeederError == pc' = "done" /\ outcome' = "NameError"

\* The step is one of a train call with these arguments, fed either way: a
\* call given its batch directly takes the step a call with a feeder takes,
\* except where it ends in FeederError.
TrainStep(restore_model, pre_trained_model, epoch_prev, end, inner) ==
    /\ nCalls' = nCalls + 1
    /\ epoch_end' = end
    /\ Train(IF FeederError THEN Some(GoodBatch) ELSE None,
             restore_model, pre_trained_model, epoch_prev, end, inner)

\* C1: a train call with restore_model enabled and no checkpoint name, on an
\* instance that completed a train call, restores {sessid}_latest.ckpt (or
\* fails in doing so) and starts its epoch counter at trained_epochs + 1: the
\* first epoch it executes has that number, the session holds the parameters
\* of that file, and neither sessid nor the history is touched, whatever
\* epoch_prev is.  During the call the counter stays above the mark the call
\* started from.  (A call given its batch directly does the same and then
\* ends at the first call of its feeder.)
C1_ResumeStartsAfterTrainedEpochs ==
    [][/\ (pc = "idle" /\ graph_trained /\ nCalls' = nCalls + 1) =>
            \/ RestoreError
            \/ \A end \in EpochArgs \cap {epoch_end'} :
                  (\E epoch_prev \in EpochArgs, inner \in InnerIterationArgs :
                      TrainStep(TRUE, None, epoch_prev, end, inner)) =>
                     /\ sessid' = sessid
                     /\ results' = results
                     /\ \/ FeederError
                        \/ /\ i' = trained_epochs + 1
                           /\ IF end >= trained_epochs + 1
                              THEN /\ pc' = "t_batch"
                                   /\ path' = "resumed"
                                   /\ first_epoch' = trained_epochs + 1
                                   /\ fed' = 0
                                   /\ sess' = [open |-> TRUE, variables |->
                                           Some(model_dir[LatestCkpt(Val(sessid))])]
                              ELSE pc' = "done" /\ outcome' = "results"
       /\ (pc # "idle" /\ path = "resumed") =>
            (first_epoch = trained_epochs + 1 /\ i >= first_epoch)
      ]_vars

\* C1, reached: a resumed call runs epoch 2 after a call that ran epoch 1.
C1_Witness ==
    /\ pc = "t_batch"
    /\ path = "resumed"
    /\ trained_epochs = 1
    /\ first_epoch = 2
    /\ i = 2
    /\ all_epochs = <<1>>

\* C2: a train call that takes the fresh path (restore_model false, or no
\* checkpoint name on an instance that never trained) clears every result
\* holder, draws a new sessid and starts its epoch counter at 1 whatever
\* epoch_prev is; when an epoch is to be run, the session holds initialised
\* parameters and no batch has been consumed yet.  (Every step that a call
\* with such arguments and epoch_end = end can take ends as stated; a call
\* given its batch directly ends at the first call of its feeder instead of
\* running the epoch.)
C2_FreshPathResets ==
    [][(pc = "idle" /\ graph = "built" /\ nCalls' = nCalls + 1) =>
         \A end \in EpochArgs \cap {epoch_end'} :
            (\E restore_model \in BOOLEAN, pre_trained_model \in PreTrainedArgs,
                epoch_prev \in EpochArgs, inner \in InnerIterationArgs :
                /\ ~restore_model \/ (IsNone(pre_trained_model) /\ ~graph_trained)
                /\ TrainStep(restore_model, pre_trained_model, epoch_prev, end, inner)) =>
               /\ all_epochs' = <<>>
               /\ all_losses_per_epoch' = <<>>
               /\ all_losses_oos_per_epoch' = <<>>
               /\ all_corr_oos_per_epoch' = <<>>
               /\ all_corr_is' = <<>>
               /\ all_corr_oos' = <<>>
               /\ IsNone(all_actual_is') /\ IsNone(all_actual_oos')
               /\ IsNone(all_predicted_is') /\ IsNone(all_predicted_oos')
               /\ sessid' = Some(id_generator(id_draws))
               /\ sessid' # sessid
               /\ id_draws' = id_draws + 1
               /\ \/ FeederError
                  \/ /\ i' = 1
                     /\ IF end >= 1
                        THEN /\ pc' = "t_batch"
                             /\ path' = "fresh"
                             /\ first_epoch' = 1
                             /\ fed' = 0
                             /\ sess' = [open |-> TRUE, variables |-> Some(Initialised)]
                        ELSE pc' = "done" /\ outcome' = "results"
      ]_vars

\* C2, reached: a second fresh run, on an instance that trained for an epoch,
\* about to run epoch 1 with empty holders, initialised parameters and the
\* second sessid drawn.
C2_Witness ==
    /\ pc = "t_batch"
    /\ path = "fresh"
    /\ graph_trained
    /\ i = 1
    /\ fed = 0
    /\ id_draws = 2
    /\ trained_epochs = 1
    /\ all_epochs = <<>>
    /\ sess.variables = Some(Initialised)

\* C3, as amended: a train call with restore_model enabled and a checkpoint
\* name restores that file (or fails in doing so), trained instance or not;
\* sessid is drawn only when there is none, the result holders are kept, the
\* epoch counter starts at epoch_prev + 1 and the session holds the file's
\* parameters, not initialised ones.
C3_NamedCheckpointRestoredWhenRestoring ==
    [][(pc = "idle" /\ graph = "built" /\ nCalls' = nCalls + 1) =>
         \/ RestoreError
         \/ \A name \in PreTrainedNames, epoch_prev \in EpochArgs,
               end \in EpochArgs \cap {epoch_end'}, inner \in InnerIterationArgs :
               TrainStep(TRUE, Some(name), epoch_prev, end, inner) =>
                  /\ results' = results
                  /\ sessid' = IF IsNone(sessid) THEN Some(id_generator(id_draws))
                               ELSE sessid
                  /\ \/ FeederError
                     \/ /\ i' = epoch_prev + 1
                        /\ IF end >= epoch_prev + 1
                           THEN /\ pc' = "t_batch"
                                /\ path' = "pretrained"
                                /\ fed' = 0
                                /\ sess' = [open |-> TRUE, variables |->
                                              Some(model_dir[NamedCkpt(name)])]
                           ELSE pc' = "done" /\ outcome' = "results"
      ]_vars

\* C3, as stated: the same of every train call that is given a checkpoint
\* name, restore_model enabled or not.
C3_NamedCheckpointAlwaysRestored ==
    [][(pc = "idle" /\ graph = "built" /\ nCalls' = nCalls + 1) =>
         \/ RestoreError
         \/ \A restore_model \in BOOLEAN, name \in PreTrainedNames,
               epoch_prev \in EpochArgs, end \in EpochArgs \cap {epoch_end'},
               inner \in InnerIterationArgs :
               TrainStep(restore_model, Some(name), epoch_prev, end, inner) =>
                  /\ results' = results
                  /\ sessid' = IF IsNone(sessid) THEN Some(id_generator(id_draws))
                               ELSE sessid
                  /\ \/ FeederError
                     \/ /\ i' = epoch_prev + 1
                        /\ IF end >= epoch_prev + 1
                           THEN /\ pc' = "t_batch"
                                /\ sess' = [open |-> TRUE, variables |->
                                              Some(model_dir[NamedCkpt(name)])]
                           ELSE pc' = "done" /\ outcome' = "results"
      ]_vars

\* C3, reached: a trained instance with history runs an epoch on the
\* parameters of the named file, its sessid and history kept.
C3_Witness ==
    /\ pc = "t_batch"
    /\ path = "pretrained"
    /\ graph_trained
    /\ fed = 0
    /\ all_epochs # <<>>
    /\ id_draws = 1
    /\ sess.variables = Some(model_dir[NamedCkpt("pretrained.ckpt")])

\* C4: sessid changes only by one draw of id_generator or by the call wrapper
\* constructing the instance anew; once it is set, the only calls that change
\* it are a train call on the fresh path and the call wrapper, so no resuming
\* train call and no predict call does; and it does not change while a train
\* or predict call is in flight.
C4_SessidStable ==
    [][/\ id_draws' \in {id_draws, id_draws + 1}
       /\ (id_draws' = id_draws + 1) => sessid' # sessid
       /\ (sessid' # sessid) =>
            \/ /\ id_draws' = id_draws + 1
               /\ sessid' = Some(id_generator(id_draws))
            \/ CallWrapperCall
       /\ pc # "idle" => sessid' = sessid
       /\ (~IsNone(sessid) /\ sessid' # sessid /\ ~CallWrapperCall) =>
            \E restore_model \in BOOLEAN, pre_trained_model \in PreTrainedArgs,
               epoch_prev \in EpochArgs, end \in EpochArgs \cap {epoch_end'},
               inner \in InnerIterationArgs :
               /\ ~restore_model \/ (IsNone(pre_trained_model) /\ ~graph_trained)
               /\ TrainStep(restore_model, pre_trained_model, epoch_prev, end, inner)
      ]_vars

\* C4, reached: predict iterates on a trained instance that restored a named
\* checkpoint, with the sessid of the one fresh run.
C4_Witness ==
    /\ pc = "p_iter"
    /\ graph_trained
    /\ id_draws = 1
    /\ sessid = Some(id_generator(0))
    /\ sess.variables = Some(model_dir[NamedCkpt("pretrained.ckpt")])

\* C5: every epoch the loop completes goes on to the save step with its
\* number still in i; a save step that reports success has written both
\* {sessid}_epoch_{i}.ckpt and {sessid}_latest.ckpt with the parameters the
\* session holds at the end of that epoch, and touched no other file; model_dir
\* changes in no other step, and the counter advances only in the step after.
C5_CheckpointsWrittenAtEpochEnd ==
    [][/\ (all_epochs' # all_epochs /\ all_epochs' # <<>>) =>
            /\ pc = "t_batch"
            /\ pc' = "t_save"
            /\ all_epochs' = Append(all_epochs, i)
            /\ i' = i
            /\ sess' = sess
       /\ pc = "t_save" =>
            /\ i' = i
            /\ last_log' = "Model checkpoint successfully saved." =>
                 /\ Exists(model_dir', EpochCkpt(Val(sessid), i))
                 /\ Exists(model_dir', LatestCkpt(Val(sessid)))
                 /\ model_dir'[EpochCkpt(Val(sessid), i)] = Val(sess.variables)
                 /\ model_dir'[LatestCkpt(Val(sessid))] = Val(sess.variables)
                 /\ \A f \in DOMAIN model_dir :
                      f \notin {EpochCkpt(Val(sessid), i), LatestCkpt(Val(sessid))}
                         => (Exists(model_dir', f) /\ model_dir'[f] = model_dir[f])
       /\ model_dir' # model_dir => pc = "t_save"
       /\ pc = "t_advance" => (i' = i + 1 /\ model_dir' = model_dir)
       /\ i' # i => (pc \in {"idle", "t_advance", "done"} \/ pc' = "done")
      ]_vars

\* C5, reached: the second epoch of a run is saved, the counter still at 2;
\* both files hold the session's parameters, which differ from epoch 1's.
C5_Witness ==
    /\ pc = "t_advance"
    /\ i = 2
    /\ last_log = "Model checkpoint successfully saved."
    /\ Exists(model_dir, EpochCkpt(Val(sessid), 1))
    /\ Exists(model_dir, EpochCkpt(Val(sessid), 2))
    /\ model_dir[EpochCkpt(Val(sessid), 2)] = Val(sess.variables)
    /\ model_dir[LatestCkpt(Val(sessid))] = Val(sess.variables)
    /\ model_dir[EpochCkpt(Val(sessid), 1)] # Val(sess.variables)

\* C6: the save step never ends the call: whatever the saves did, the call
\* stays in flight with its session, counter and history as they were; when
\* the two files do not both hold the session's parameters afterwards, the
\* failure was logged; and the step after advances the counter and either
\* starts the next epoch (counter within epoch_end) or returns the results
\* with the instance marked trained.
C6_SaveFailureDoesNotAbort ==
    [][/\ pc = "t_save" =>
            /\ pc' = "t_advance"
            /\ outcome' = "none"
            /\ i' = i
            /\ epoch_end' = epoch_end
            /\ sess' = sess
            /\ results' = results
            /\ last_log' \in {"Model checkpoint successfully saved.",
                              "Model checkpoint save unsuccessful"}
            /\ ~( /\ Exists(model_dir', EpochCkpt(Val(sessid), i))
                  /\ Exists(model_dir', LatestCkpt(Val(sessid)))
                  /\ model_dir'[EpochCkpt(Val(sessid), i)] = Val(sess.variables)
                  /\ model_dir'[LatestCkpt(Val(sessid))] = Val(sess.variables) )
                 => last_log' = "Model checkpoint save unsuccessful"
       /\ pc = "t_advance" =>
            /\ i' = i + 1
            /\ IF i + 1 <= epoch_end
               THEN pc' = "t_batch" /\ sess' = sess /\ fed' = 0 /\ outcome' = "none"
               ELSE pc' = "done" /\ outcome' = "results" /\ graph_trained'
      ]_vars

\* C6, reached: a call returned its results after two epochs, trained, though
\* the save of each of the two epochs failed.
C6_Witness ==
    /\ pc = "done"
    /\ outcome = "results"
    /\ graph_trained
    /\ trained_epochs = 2
    /\ all_epochs = <<1, 2>>
    /\ last_log = "Model checkpoint save unsuccessful"
    /\ ~Exists(model_dir, EpochCkpt(Val(sessid), 1))
    /\ ~Exists(model_dir, LatestCkpt(Val(sessid)))

\* What a call aborted by a failed restore leaves behind: the error is the
\* call's outcome, the session is released, no epoch was started and no batch
\* taken from the feeder, and the instance is as it was.
RestoreAborted ==
    /\ RestoreError
    /\ sess' = Closed
    /\ fed' = 0
    /\ UNCHANGED <<sessid, id_draws, graph_trained, trained_epochs, results,
                   epochs_run, model_dir>>

\* C7: a train call (restore enabled) or a predict call naming a checkpoint
\* that is not in model_dir, a resuming train call and a predict call of an
\* instance whose {sessid}_latest.ckpt is not there, all end in the restore
\* error; and every call that ends in a restore error, whatever made the
\* restore fail, ran no epoch, consumed no batch, and left sessid,
\* graph_trained, trained_epochs and the history unchanged.  (Stated for the
\* steps that do not end so: none of them is a step of such a call.)
C7_RestoreFailureAborts ==
    [][(pc = "idle" /\ graph = "built") =>
         /\ RestoreError => RestoreAborted
         /\ (nCalls' = nCalls + 1 /\ ~RestoreAborted) =>
              /\ \A name \in PreTrainedNames :
                   ~Exists(model_dir, NamedCkpt(name)) =>
                      /\ ~\E epoch_prev \in EpochArgs, end \in EpochArgs \cap {epoch_end'},
                            inner \in InnerIterationArgs :
                            TrainStep(TRUE, Some(name), epoch_prev, end, inner)
                      /\ ~Predict(Some(name))
              /\ (~IsNone(sessid) /\ ~Exists(model_dir, LatestCkpt(Val(sessid)))) =>
                   /\ graph_trained =>
                        ~\E epoch_prev \in EpochArgs, end \in EpochArgs \cap {epoch_end'},
                            inner \in InnerIterationArgs :
                            TrainStep(TRUE, None, epoch_prev, end, inner)
                   /\ ~Predict(None)
      ]_vars

\* C7, reached: an instance trained for one epoch made a call whose restore
\* failed; it is trained as before, with its sessid and its history.
C7_Witness ==
    /\ pc = "done"
    /\ outcome = "Exception"
    /\ sess = Closed
    /\ graph_trained
    /\ trained_epochs = 1
    /\ all_epochs = <<1>>
    /\ ~IsNone(sessid)
    /\ epochs_run = 1

\* C8: while an epoch is in progress the counter is within epoch_end; after
\* the counter advances the loop goes on exactly when the counter is still
\* within epoch_end; a call returns its results only with the counter past
\* epoch_end, and then the instance is marked trained and trained_epochs is
\* the counter less one, which is epoch_end (the last epoch recorded) when the
\* return follows an epoch; the loop is left only by the call ending, and no
\* call stays in the loop forever, so a train call in flight always ends.
C8_LoopEndsPastEpochEnd ==
    /\ [][/\ pc \in {"t_batch", "t_save", "t_advance"} => i <= epoch_end
          /\ pc' = "t_batch" => i' <= epoch_end'
          /\ pc = "t_advance" =>
               /\ i' = i + 1
               /\ pc' = "t_batch" <=> i + 1 <= epoch_end
               /\ pc' = "done" <=> i + 1 > epoch_end
          /\ (pc' = "done" /\ outcome' = "results") =>
               /\ graph_trained'
               /\ i' > epoch_end'
               /\ trained_epochs' = i' - 1
               /\ pc = "t_advance" =>
                    /\ i = epoch_end
                    /\ trained_epochs' = epoch_end
                    /\ all_epochs'[Len(all_epochs')] = epoch_end
          /\ (pc \in {"t_batch", "t_save", "t_advance"}
                /\ pc' \notin {"t_batch", "t_save", "t_advance"}) => pc' = "done"
         ]_vars
    /\ []<>(pc \notin {"t_batch", "t_save", "t_advance"})

\* C8, reached: a call that resumed at epoch 2 returned after it, with the
\* counter at 3 and trained_epochs at epoch_end.
C8_Witness ==
    /\ pc = "done"
    /\ outcome = "results"
    /\ graph_trained
    /\ epoch_end = 2
    /\ i = 3
    /\ trained_epochs = 2
    /\ all_epochs = <<1, 2>>
    /\ nCalls = 2

\* C9: a batch with a non-finite value in X or y changes nothing but the
\* feeder's position, and an epoch all of whose batches were skipped ends
\* without an exception.
C9_NonFiniteBatchSkipped ==
    [][pc = "t_batch" =>
         /\ \A b \in Batches :
              (~b.finite /\ TrainOnBatch(b)) =>
                 /\ pc' = "t_batch"
                 /\ outcome' = "none"
                 /\ UNCHANGED <<sess, results, loss_epoch, loss_oos_epoch,
                                actual_oos, predicted_oos>>
         /\ (fed > 0 /\ IsNone(actual_oos) /\ TrainEpochEnd) =>
              (pc' = "t_save" /\ outcome' = "none")
      ]_vars

\* The three ways lines 634-638 find a batch misshaped.
Misshaped(b) ==
    \/ b.n_features # n_input_features
    \/ b.n_outputs # n_output_features
    \/ b.in_sample_size > b.rows

\* A batch ended the call at lines 632-638: an assertion failed, the session was
\* released with the parameters never stepped, and nothing was recorded.
BatchRejected ==
    /\ pc' = "done"
    /\ outcome' \in {"AssertionError",
                     "AssertionError: in_sample_size needs to be smaller than total",
                     "AssertionError: batch_X should have shape",
                     "AssertionError: batch_y should have shape"}
    /\ sess' = Closed
    /\ UNCHANGED <<results, model_dir, session_state>>

\* C10: every misshaped batch with finite values that the feeder yields is
\* rejected by an assertion that ends the call before any gradient step.
C10_FiniteMisshapedBatchRejected ==
    [][pc = "t_batch" =>
         \A b \in Batches :
            (b.finite /\ Misshaped(b) /\ TrainOnBatch(b))
               => BatchRejected
      ]_vars

\* C10 as stated, for every misshaped batch, finite or not.
C10_MisshapedBatchRejected ==
    [][pc = "t_batch" =>
         \A b \in Batches : (Misshaped(b) /\ TrainOnBatch(b)) => BatchRejected
      ]_vars

\* C10, reached: the first batch of a fresh run had a wrong feature
\* dimension; the call ended with the parameters as initialised.
C10_Witness ==
    /\ pc = "done"
    /\ outcome = "AssertionError: batch_X should have shape"
    /\ sess = Closed
    /\ ~graph_trained
    /\ ~IsNone(sessid)
    /\ all_epochs = <<>>
    /\ all_corr_is = <<>>

\* C11: in every run of the graph the cells apply the keep probability that
\* was fed for it: self.keep_prob in the optimizer runs, 1.0 in the
\* evaluation pass of train and in the forward pass of predict.
C11_DropoutAppliedIsFed ==
    \A k \in 1..Len(sess_runs) :
        /\ sess_runs[k].dropout = sess_runs[k].keep_prob
        /\ sess_runs[k].op = "optimizer" => sess_runs[k].keep_prob = self_keep_prob
        /\ sess_runs[k].op \in {"evaluation", "pred"} =>
               sess_runs[k].keep_prob = KeepProbOff

\* C12: the parameters an optimizer run leaves are those it would leave on
\* any batch with the same rows before the cutoff, whatever the rows from the
\* cutoff on and whatever loss_oos they give.
C12_UpdateDependsOnInSampleRows ==
    ~IsNone(optimizer_run) =>
        \A other \in GraphBatches :
            InSample(other, Val(optimizer_run).cutoff)
                = InSample(Val(optimizer_run).rows, Val(optimizer_run).cutoff)
            => /\ Minimize(Val(optimizer_run).before, other, Val(optimizer_run).cutoff)
                     = Val(optimizer_run).after
               /\ loss(other, Val(optimizer_run).cutoff, Val(optimizer_run).before)
                     = Val(optimizer_run).loss

\* C12, reached: an optimizer run changed the parameters on a batch whose one
\* out-of-sample row gives a loss_oos other than that of the batch with the
\* other value in that row.
C12_Witness ==
    /\ ~IsNone(optimizer_run)
    /\ Val(optimizer_run).cutoff = 1
    /\ Val(optimizer_run).rows[1] = 1
    /\ Val(optimizer_run).rows[2] = 0
    /\ Val(optimizer_run).before = 3
    /\ Val(optimizer_run).after # Val(optimizer_run).before
    /\ Val(optimizer_run).loss_oos
         # loss_oos([Val(optimizer_run).rows EXCEPT ![2] = 1], 1, 3)

\* C13: a predict call with no checkpoint name on an instance without sessid
\* ends in the assertion error of line 904 with no run of the graph and the
\* instance as it was; a predict call with a name restores that file, and one
\* without a name on an instance with a sessid restores {sessid}_latest.ckpt,
\* unless the restore fails.
C13_PredictRestoresNamedOrLatest ==
    [][(pc = "idle" /\ graph = "built" /\ nCalls' = nCalls + 1) =>
         /\ (IsNone(sessid) /\ Predict(None)) =>
               /\ pc' = "done"
               /\ outcome' = "AssertionError: No valid session id"
               /\ sess' = Closed
               /\ sess_runs' = <<>>
               /\ UNCHANGED <<session_state, results, model_dir>>
         /\ \A name \in PreTrainedNames :
               Predict(Some(name)) =>
                  \/ RestoreError
                  \/ /\ pc' = "p_iter"
                     /\ sess' = [open |-> TRUE,
                                 variables |-> Some(model_dir[NamedCkpt(name)])]
         /\ (~IsNone(sessid) /\ Predict(None)) =>
               \/ RestoreError
               \/ /\ pc' = "p_iter"
                  /\ sess' = [open |-> TRUE,
                              variables |-> Some(model_dir[LatestCkpt(Val(sessid))])]
      ]_vars

\* C13, reached: a predict call with a checkpoint name, on an instance that
\* has trained and saved parameters other than the named file's, is about to
\* run on the named file's parameters.
C13_Witness ==
    /\ pc = "p_iter"
    /\ outcome = "none"
    /\ ~IsNone(sessid)
    /\ Exists(model_dir, LatestCkpt(Val(sessid)))
    /\ sess.variables = Some(model_dir[NamedCkpt("pretrained.ckpt")])
    /\ model_dir[LatestCkpt(Val(sessid))] # model_dir[NamedCkpt("pretrained.ckpt")]

\* C14: no step of a predict call (its entry with any argument, a pass over
\* an element of either form, the end of its sequence, its generator being
\* set aside, resumed or closed) changes the result holders, graph_trained,
\* trained_epochs or a file of model_dir.
C14_PredictLeavesHistoryAndCheckpoints ==
    [][\/ UNCHANGED <<results, graph_trained, trained_epochs, model_dir>>
       \/ ~(pc = "p_iter" \/ pc' = "p_iter" \/ (pc = "idle" /\ (PredictCall \/ PredictClose)))
      ]_vars

\* C14, reached: a predict call ran to the end of its sequence on an
\* instance trained for one epoch, whose history and checkpoints are there.
C14_Witness ==
    /\ pc = "done"
    /\ outcome = "StopIteration"
    /\ sess_runs = <<>>
    /\ graph_trained
    /\ trained_epochs = 1
    /\ all_epochs = <<1>>
    /\ ~IsNone(all_actual_is)
    /\ Exists(model_dir, LatestCkpt(Val(sessid)))
    /\ Exists(model_dir, EpochCkpt(Val(sessid), 1))

\* C15: whichever form the element the feeder yields has, a training-style
\* tuple or a raw input array, the pass over it yields a prediction and the
\* call goes on.
C15_PredictAcceptsRawArrays ==
    [][pc = "p_iter" =>
         \A data \in PredictData :
            PredictOn(data) =>
               /\ pc' = "p_iter"
               /\ outcome' = "yielded"
               /\ sess_runs' = <<SessRun("pred", 0, 0)>>
      ]_vars

\* C16: a session is open for the call in flight and for nothing else once
\* that call has ended, by return or by exception; a session stays open past
\* its call only with a predict generator the caller set aside after an
\* element, until that generator is resumed or closed.
C16_SessionsScopedToCalls ==
    [][/\ sess'.open <=> pc' \in {"t_batch", "t_save", "t_advance", "p_iter"}
       /\ pc' = "done" => ~sess'.open
       /\ Len(suspended') > Len(suspended) =>
             /\ pc = "p_iter"
             /\ outcome = "yielded"
             /\ pc' = "idle"
             /\ suspended' = Append(suspended, sess)
       /\ OpenSessions' > OpenSessions =>
             (pc = "idle" /\ nCalls' = nCalls + 1 /\ Len(suspended') = Len(suspended))
       /\ \A k \in 1..Len(suspended') : suspended'[k].open
      ]_vars

\* C16 as stated: at most one session is open at any time, and none once a
\* call has ended or is set aside.
C16_AtMostOneSessionOpen ==
    /\ OpenSessions <= 1
    /\ pc \in {"idle", "done"} => OpenSessions = 0

\* C16, reached: a train call runs in its session while a predict generator
\* that was set aside after an element holds another.
C16_Witness ==
    /\ pc = "t_batch"
    /\ sess.open
    /\ Len(suspended) = 1
    /\ suspended[1].open
    /\ OpenSessions = 2

\* C17: a build of a new graph on an instance that has one, by
\* create_lstm_graph or by __call__, leaves the instance not marked trained
\* and with trained_epochs 0.
C17_RebuildDiscardsSessionState ==
    [][(pc = "idle" /\ graph = "built" /\ pc' = "done" /\ graph' = "built"
          /\ (CreateGraphCall \/ CallWrapperCall))
          => (graph_trained' = FALSE /\ trained_epochs' = 0)
      ]_vars

\* C18: an instance whose construction met a configuration error while
\* building the graph is never there for a train or predict call to run on.
C18_ConfigErrorAbortsConstruction ==
    [][(pc = "idle" /\ last_log = "Exception occurred during graph creation.")
          => ~(TrainCall \/ PredictCall)
      ]_vars

\* C19: while a train call runs an epoch, data_feeder has been invoked once
\* for each epoch of the call so far; each invocation is part of the step
\* that starts an epoch within epoch_end, and gives a sequence from which no
\* batch is taken yet (or raises, in the first epoch of a call given its
\* batch directly, which ends the call); the epoch's totals are recorded only in the step in
\* which that sequence ends, after which no batch is taken until the next
\* invocation; and a call that returns its results has invoked the feeder as
\* many times as it ran epochs.
C19_FeederInvokedOncePerEpoch ==
    [][/\ pc \in {"t_batch", "t_save", "t_advance"} =>
             feeder_calls = i - first_epoch + 1
       /\ (feeder_calls' # feeder_calls /\ feeder_calls' # 0) =>
             /\ feeder_calls' = feeder_calls + 1
             /\ pc \in {"idle", "t_advance"}
             /\ pc' = "t_batch" \/ (pc = "idle" /\ FeederError)
             /\ i' <= epoch_end'
             /\ fed' = 0
       /\ (pc \in {"idle", "t_advance"} /\ pc' = "t_batch") =>
             feeder_calls' = feeder_calls + 1
       /\ (all_epochs' # all_epochs /\ all_epochs' # <<>>) =>
             /\ pc = "t_batch"
             /\ pc' = "t_save"
             /\ fed' = fed
             /\ feeder_calls' = feeder_calls
       /\ pc \in {"t_save", "t_advance"} => fed' \in {fed, 0}
       /\ (pc' = "done" /\ outcome' = "results") =>
             feeder_calls' = (IF pc = "t_advance" THEN i - first_epoch + 1 ELSE 0)
      ]_vars

\* C19, reached: a call returned after two epochs, having invoked the
\* feeder twice.
C19_Witness ==
    /\ pc = "done"
    /\ outcome = "results"
    /\ feeder_calls = 2
    /\ all_epochs = <<1, 2>>
    /\ epoch_end = 2
    /\ nCalls = 1

\* C20: every optimizer run of epoch i of a call with end epoch epoch_end is
\* fed the fraction i / epoch_end for global_step; the fraction is at most 1,
\* and it is 0 in the first epoch of a fresh run.
C20_ProgressFractionFromZero ==
    \A k \in 1..Len(sess_runs) :
        sess_runs[k].op = "optimizer" =>
            /\ Val(sess_runs[k].global_step) = <<i, epoch_end>>
            /\ Val(sess_runs[k].global_step)[1] <= Val(sess_runs[k].global_step)[2]
            /\ (path = "fresh" /\ i = first_epoch) =>
                   Val(sess_runs[k].global_step)[1] = 0

\* n copies of a block of rows, one after the other.
RECURSIVE Repeat(_, _)
Repeat(block, n) == IF n <= 0 THEN <<>> ELSE block \o Repeat(block, n - 1)

\* C21: a fresh train call with epoch_end >= 1 that returns its results has
\* recorded the epochs 1..epoch_end, one loss, one validation loss and one
\* out-of-sample correlation per epoch, at least one batch per epoch, and in
\* the four accumulators one block of cutoff rows (in-sample) and one of
\* rows - cutoff rows (out-of-sample) for every batch it processed.
C21_FreshRunHistory ==
    [][(pc = "t_advance" /\ path = "fresh" /\ pc' = "done") =>
         LET cutoff == GoodBatch.in_sample_size
             is_block == InSample(Rows(GoodBatch), cutoff)
             oos_block == OutOfSample(Rows(GoodBatch), cutoff)
             batches == Len(all_corr_is')
         IN  /\ outcome' = "results"
             /\ epoch_end' >= 1
             /\ all_epochs' = [n \in 1..epoch_end' |-> n]
             /\ Len(all_losses_per_epoch') = epoch_end'
             /\ Len(all_losses_oos_per_epoch') = epoch_end'
             /\ Len(all_corr_oos_per_epoch') = epoch_end'
             /\ batches >= epoch_end'
             /\ Len(is_block) = cutoff
             /\ Len(oos_block) = GoodBatch.rows - cutoff
             /\ all_actual_is' = Some(Repeat(is_block, batches))
             /\ all_predicted_is' = Some(Repeat(is_block, batches))
             /\ all_actual_oos' = Some(Repeat(oos_block, batches))
             /\ all_predicted_oos' = Some(Repeat(oos_block, batches))
      ]_vars

\* C21, reached: the one call made on the instance was a fresh run of two
\* epochs, and it returned with both epochs and two blocks recorded.
C21_Witness ==
    /\ pc = "done"
    /\ outcome = "results"
    /\ nCalls = 1
    /\ id_draws = 1
    /\ epoch_end = 2
    /\ all_epochs = <<1, 2>>
    /\ all_actual_is = Some(Repeat(InSample(Rows(GoodBatch), GoodBatch.in_sample_size), 2))
    /\ Exists(model_dir, LatestCkpt(1))
    /\ model_dir[LatestCkpt(1)] = Initialised + 2 * self_inner_iteration

\* C22: a train call that is given its batch directly and has an epoch to
\* run goes on to train on that batch, and does not end in an exception
\* raised by its feeder.
C22_DirectBatchIsTrainedOn ==
    [][(pc = "idle" /\ graph = "built") =>
         \A end \in EpochArgs :
            (\E restore_model \in BOOLEAN, epoch_prev \in EpochArgs,
                inner \in InnerIterationArgs :
                /\ ~restore_model \/ ~graph_trained
                /\ end >= 1
                /\ Train(Some(GoodBatch), restore_model, None, epoch_prev, end, inner))
              => (pc' = "t_batch" /\ outcome' = "none")
      ]_vars

\* C23: for a cutoff c with 0 < c < rows, y_is and pred_is are the first c
\* rows of y and pred and y_oos and pred_oos the rows from c on: the two
\* slices put together are the batch, row for row, so that no row is in both
\* and none in neither, and pred_oos has as many rows as y_oos.
C23_CutoffPartitionsBatch ==
    ~IsNone(optimizer_run) =>
        LET run == Val(optimizer_run)
            c == run.cutoff
            y == run.rows
            pred == Predictions(run.rows, run.before)
        IN  (0 < c /\ c < Len(y)) =>
               /\ run.y_is = [k \in 1..c |-> y[k]]
               /\ run.y_oos = [k \in 1..(Len(y) - c) |-> y[c + k]]
               /\ run.pred_is = [k \in 1..c |-> pred[k]]
               /\ run.pred_oos = [k \in 1..(Len(y) - c) |-> pred[c + k]]
               /\ run.y_is \o run.y_oos = y
               /\ run.pred_is \o run.pred_oos = pred
               /\ Len(run.y_is) + Len(run.y_oos) = Len(y)
               /\ Len(run.pred_oos) = Len(run.y_oos)

\* C23, reached: a batch of unlike rows cut after its first row.
C23_Witness ==
    /\ ~IsNone(optimizer_run)
    /\ Val(optimizer_run).cutoff = 1
    /\ Val(optimizer_run).rows[1] = 0
    /\ Val(optimizer_run).rows[BatchRows] = 1
    /\ Val(optimizer_run).y_is = <<0>>
    /\ Val(optimizer_run).y_oos[Len(Val(optimizer_run).y_oos)] = 1
    /\ Len(Val(optimizer_run).y_is) + Len(Val(optimizer_run).y_oos) = BatchRows

\* The step trains on a batch: the call goes through lines 647-802 once.
BatchTrainedOn == pc = "t_batch" /\ pc' = "t_batch" /\ step' = step + 1

\* C24, as amended: the diagnostic line is emitted at the end of a batch the
\* call trained on exactly when step, which counts those batches from the
\* argument step, is a multiple of display_step: once every display_step
\* batches, each of which is inner_iteration gradient steps.  An emission
\* advances writer_step by one, and nothing else in the call changes
\* writer_step, step or display_step.
C24_DiagnosticsEveryDisplayStepBatches ==
    [][/\ BatchTrainedOn =>
            /\ display_step' = display_step
            /\ IF step % display_step = 0
               THEN last_log' = "Iter" /\ writer_step' = writer_step + 1
               ELSE last_log' = last_log /\ writer_step' = writer_step
            /\ writer_step' - DefaultWriterStep = step \div display_step
            /\ Len(sess_runs') = Val(inner_iteration') + 1
       /\ (pc \in {"t_batch", "t_save", "t_advance"} /\ ~BatchTrainedOn /\ pc' # "done") =>
            UNCHANGED <<step, writer_step, display_step>>
       /\ (pc \in {"t_batch", "t_save", "t_advance"}) =>
            ((last_log' = "Iter" /\ ~BatchTrainedOn) => last_log = "Iter")
      ]_vars

\* C24, as stated: the diagnostic line is emitted at the end of a batch the
\* call trained on exactly when the gradient steps of the call, of which the
\* batch ran inner_iteration, reached a multiple of display_step; an emission
\* advances writer_step by one.
C24_DiagnosticsEveryDisplayStepGradientSteps ==
    [][BatchTrainedOn =>
         LET inner == Val(inner_iteration')
             before == (step - DefaultStep) * inner
             after == before + inner
         IN  /\ (writer_step' # writer_step)
                  <=> (\E g \in (before + 1)..after : g % display_step = 0)
             /\ (writer_step' # writer_step) => writer_step' = writer_step + 1
      ]_vars

\* C24, reached: a call with display_step 2 trained on its second batch and
\* emitted its first diagnostic line.
C24_Witness ==
    /\ pc = "t_batch"
    /\ display_step = 2
    /\ step = DefaultStep + 2
    /\ writer_step = DefaultWriterStep + 1
    /\ last_log = "Iter"
    /\ Len(sess_runs) = self_inner_iteration + 1

\* C25: between calls, an instance that is marked trained or holds a sessid
\* has the file {sessid}_latest.ckpt of that sessid in model_dir.
C25_LatestCheckpointOfSessidExists ==
    (pc = "idle" /\ (graph_trained \/ ~IsNone(sessid))) =>
        /\ ~IsNone(sessid)
        /\ Exists(model_dir, LatestCkpt(Val(sessid)))

\* C26: between calls, all_epochs is strictly increasing and, when it is not
\* empty, its last entry is trained_epochs.
C26_HistoryStrictlyIncreasing ==
    pc = "idle" =>
        /\ \A k \in 1..(Len(all_epochs) - 1) : all_epochs[k] < all_epochs[k + 1]
        /\ all_epochs # <<>> => all_epochs[Len(all_epochs)] = trained_epochs

====
